---- MODULE Spec2Model ----
(***************************************************************************)
(* A model of the artifact resolver (scripts/ai_readiness_report.py), of  *)
(* the finding aggregator (summarize_cves in scripts/cve_report.py and     *)
(* scripts/sbom_report.py), of the package table of the basic CVE report   *)
(* and of the main flows of the three scripts.                             *)
(*                                                                         *)
(* Python values are modelled as follows.                                  *)
(*   - a dict is a function whose DOMAIN is the set of keys present; a     *)
(*     missing key is a key outside the DOMAIN (Get models dict.get);      *)
(*   - a dict whose insertion order matters (by_package, scan results) is  *)
(*     a sequence of entries with pairwise different keys;                 *)
(*   - a string that the code concatenates or formats is a sequence of     *)
(*     one-character strings, so that formatting is computed and not       *)
(*     assumed injective; other strings are TLA+ strings;                  *)
(*   - a raised exception is a value of the pc variable of the call.       *)
(***************************************************************************)
EXTENDS Integers, Sequences, FiniteSets, TLC

VARIABLES
    \* ---- summarize_cves (cve_report.py:87-149) ----
    matches,        \* the records of scan_data["matches"] consumed so far
    by_severity,    \* local by_severity: severity key -> list of cve_info
    by_package,     \* local by_package: entries in insertion order
    all_cves,       \* local all_cves
    agg_pc,         \* "loop" | "returned" | "raised" (ValueError escaped)
    summary,        \* the returned dict, EmptyDict before the return
    \* ---- scan_files (ai_readiness_report.py:108-166) ----
    rules,          \* the rule table the loop of line 112 iterates
    fs,             \* the file-system snapshot under repo_root
    results,        \* local results: entries in insertion order
    scan_pc,        \* "idle" | "scan" | "returned" | "raised"
    \* ---- calculate_basic_score and the percentages ----
    scan_results,   \* the argument of calculate_basic_score
    score_i,        \* number of entries the loop at line 174 has consumed
    earned,         \* local earned
    possible,       \* local possible
    score_pc,       \* "idle" | "loop" | "returned" | "reported"
    pct,            \* the three score_pct values, EmptyDict before computed
    \* ---- generate_basic_report (cve_report.py:152-231) ----
    sorted_packages,\* local sorted_packages, <<>> before the sort
    basic_pc,       \* "idle" | "generated"
    \* ---- main of the three scripts ----
    script,         \* "ai_readiness" | "cve" | "sbom": whose main runs
    main_pc,        \* the position of main, "idle" when no main runs
    env,            \* os.environ: the variables that are set, with values
    report,         \* the file at report_path: "absent" | "stale" |
                    \* "agent" | "basic", by who wrote it last
    agent,          \* the agent call: "not_run" | "returned" | "raised"
    basic_written,  \* whether main has written the basic report
    exit_status,    \* "running" | "ok" | "fail"
    cve_raw,        \* the file reports/cve-raw.json: "absent" | "stale"
                    \* (left by an earlier run) | "fresh" (written by the
                    \* grype process of this run)
    scan_data       \* what run_grype_scan / run_cve_scan returned: "none",
                    \* or the state of the file whose content it returned

aggVars == <<matches, by_severity, by_package, all_cves, agg_pc, summary>>
scanVars == <<rules, fs, results, scan_pc>>
scoreVars == <<scan_results, score_i, earned, possible, score_pc, pct>>
reportVars == <<sorted_packages, basic_pc>>
mainVars ==
    <<script, main_pc, env, report, agent, basic_written, exit_status, cve_raw,
      scan_data>>
vars == <<aggVars, scanVars, scoreVars, reportVars, mainVars>>

-----------------------------------------------------------------------------
(* Python helpers *)

\* the empty dict {}
EmptyDict == [k \in {} |-> k]

\* dict.get(k, default)
Get(d, k, default) == IF k \in DOMAIN d THEN d[k] ELSE default

\* list.index(x), 0-based; -1 stands for the ValueError of a missing element
index(list, x) ==
    IF \E i \in DOMAIN list : list[i] = x
    THEN (CHOOSE i \in DOMAIN list :
              list[i] = x /\ \A j \in 1..(i - 1) : list[j] # x) - 1
    ELSE -1

\* the elements of a list
Range(list) == {list[i] : i \in DOMAIN list}

\* list(s) for a set s: every order is possible, each element once
ListsOf(s) ==
    {l \in [1..Cardinality(s) -> s] : \A i, j \in DOMAIN l : l[i] = l[j] => i = j}

RECURSIVE SumSeq(_)
SumSeq(list) == IF list = <<>> THEN 0 ELSE Head(list) + SumSeq(Tail(list))

-----------------------------------------------------------------------------
(* summarize_cves: constants and pure parts *)

\* the keys of by_severity, in the order of the literal at line 91
SeverityKeys == <<"Critical", "High", "Medium", "Low", "Negligible", "Unknown">>

\* line 134
severity_order == <<"Critical", "High", "Medium", "Low", "Negligible", "Unknown">>

\* the sentinel "unknown" of lines 101-103, as characters
Unknown_str == <<"u", "n", "k", "n", "o", "w", "n">>

\* line 120: f"{pkg_name}@{pkg_version}"
pkg_key(pkg_name, pkg_version) == pkg_name \o <<"@">> \o pkg_version

\* lines 96-115: the cve_info built from one match
cve_info_of(match) ==
    LET vuln == Get(match, "vulnerability", EmptyDict)
        artifact == Get(match, "artifact", EmptyDict)
    IN  [id |-> Get(vuln, "id", "Unknown"),
         severity |-> Get(vuln, "severity", "Unknown"),
         package |-> Get(artifact, "name", Unknown_str),
         version |-> Get(artifact, "version", Unknown_str),
         type |-> Get(artifact, "type", "unknown"),
         fix_versions |-> Get(Get(vuln, "fix", EmptyDict), "versions", <<>>),
         description |-> Get(vuln, "description", ""),
         urls |-> Get(vuln, "urls", <<>>)]

\* line 118: the bucket by_severity.get(severity, by_severity["Unknown"])
bucket_of(bs, severity) == IF severity \in DOMAIN bs THEN severity ELSE "Unknown"

\* line 136: the test that replaces max_severity
more_severe_Flipped(severity, current_max) ==
    index(severity_order, severity) > index(severity_order, current_max)
more_severe(severity, current_max) ==
    index(severity_order, severity) < index(severity_order, current_max)

\* lines 122-129: a new by_package entry
new_group(key, info) ==
    [key |-> key, name |-> info.package, version |-> info.version,
     type |-> info.type, cves |-> <<>>, max_severity |-> "Unknown",
     fix_versions |-> {}]

\* position of key in by_package, 0 when absent
group_at(bp, key) ==
    IF \E i \in DOMAIN bp : bp[i].key = key
    THEN CHOOSE i \in DOMAIN bp : bp[i].key = key
    ELSE 0

\* line 131: by_package[pkg_key]["fix_versions"].update(fix_versions)
update_fix_versions_Overwrite(current, fix_versions) == Range(fix_versions)
update_fix_versions(current, fix_versions) == current \cup Range(fix_versions)

\* line 145: {k: len(v) for k, v in by_severity.items()}
severity_counts_NonEmpty(bs) ==
    [k \in {x \in DOMAIN bs : bs[x] # <<>>} |-> Len(bs[k])]
severity_counts_Distinct(bs) ==
    [k \in DOMAIN bs |-> Cardinality({bs[k][i].id : i \in DOMAIN bs[k]})]
severity_counts(bs) == [k \in DOMAIN bs |-> Len(bs[k])]

-----------------------------------------------------------------------------
(* summarize_cves: inputs *)

\* the longest matches list explored
MaxMatches == 3

Str_a == <<"a">>
Str_ab == <<"a", "@", "b">>
Str_c == <<"c">>
Str_bc == <<"b", "@", "c">>

Vuln(sev, id, versions) ==
    [severity |-> sev, id |-> id, fix |-> [versions |-> versions]]
Artifact(name, version) == [name |-> name, version |-> version, type |-> "npm"]

\* records that differ in their severity string, "Moderate" being outside
\* the enumeration
SeverityMatches ==
    {[vulnerability |-> Vuln(s, "CVE-1", <<"2.0">>), artifact |-> Artifact(Str_a, Str_c)] :
        s \in Range(SeverityKeys) \cup {"Moderate"}}

\* records that differ in their package name and version
PackageMatches ==
    {[vulnerability |-> Vuln("High", "CVE-2", <<"2.1", "2.0", "2.1">>), artifact |-> a] :
        a \in {Artifact(Str_ab, Str_c), Artifact(Str_a, Str_bc),
               Artifact(Str_a, Str_c), Artifact(Str_a, Unknown_str),
               [name |-> Str_a], [version |-> Str_c, type |-> "npm"], EmptyDict}}

\* records with missing vulnerability, artifact, severity, id or fix fields
MalformedMatches ==
    {EmptyDict,
     [artifact |-> Artifact(Str_a, Str_c)],
     [vulnerability |-> Vuln("Critical", "CVE-3", <<>>)],
     [vulnerability |-> [id |-> "CVE-1", fix |-> [versions |-> <<"2.0">>]],
      artifact |-> Artifact(Str_a, Str_c)],
     [vulnerability |-> [severity |-> "Low", id |-> "CVE-4"],
      artifact |-> Artifact(Str_a, Str_c)],
     [vulnerability |-> [severity |-> "Medium", fix |-> EmptyDict],
      artifact |-> Artifact(Str_a, Str_c)]}

RawMatches == SeverityMatches \cup PackageMatches \cup MalformedMatches

-----------------------------------------------------------------------------
(* summarize_cves: the call *)

AggIdle ==
    /\ matches = <<>>
    /\ by_severity = [k \in Range(SeverityKeys) |-> <<>>]
    /\ by_package = <<>>
    /\ all_cves = <<>>
    /\ agg_pc = "idle"
    /\ summary = EmptyDict

\* lines 89-93: the state on entry to the loop
AggInit ==
    /\ matches = <<>>
    /\ by_severity = [k \in Range(SeverityKeys) |-> <<>>]
    /\ by_package = <<>>
    /\ all_cves = <<>>
    /\ agg_pc = "loop"
    /\ summary = EmptyDict

\* lines 95-137: one iteration of the loop, on the next record of the input.
\* The ValueError of severity_order.index (line 136) leaves the call after
\* lines 117-131 have run.
ProcessMatch(match) ==
    /\ agg_pc = "loop"
    /\ Len(matches) < MaxMatches
    /\ LET info == cve_info_of(match)
           key == pkg_key(info.package, info.version)
           bp1 == IF group_at(by_package, key) = 0
                  THEN Append(by_package, new_group(key, info))
                  ELSE by_package
           g == group_at(bp1, key)
           bp2 == [bp1 EXCEPT ![g].cves = Append(@, info),
                              ![g].fix_versions =
                                  update_fix_versions(@, info.fix_versions)]
           current_max == bp2[g].max_severity
       IN  /\ matches' = Append(matches, match)
           /\ all_cves' = Append(all_cves, info)
           /\ by_severity' =
                  [by_severity EXCEPT ![bucket_of(by_severity, info.severity)] =
                                          Append(@, info)]
           /\ IF index(severity_order, info.severity) = -1
              THEN /\ by_package' = bp2
                   /\ agg_pc' = "raised"
              ELSE /\ by_package' =
                          IF more_severe(info.severity, current_max)
                          THEN [bp2 EXCEPT ![g].max_severity = info.severity]
                          ELSE bp2
                   /\ agg_pc' = "loop"
    /\ UNCHANGED <<summary, scanVars, scoreVars, reportVars, mainVars>>

\* lines 139-149: the end of the input; fix_versions sets become lists
ReturnSummary ==
    /\ agg_pc = "loop"
    /\ \E lists \in [DOMAIN by_package ->
                        UNION {ListsOf(by_package[i].fix_versions) : i \in DOMAIN by_package}] :
          /\ \A i \in DOMAIN by_package : lists[i] \in ListsOf(by_package[i].fix_versions)
          /\ summary' =
                 [total_cves |-> Len(matches),
                  by_severity |-> severity_counts(by_severity),
                  by_severity_details |-> by_severity,
                  by_package |-> [i \in DOMAIN by_package |->
                                     [by_package[i] EXCEPT !.fix_versions = lists[i]]],
                  all_cves |-> all_cves]
    /\ agg_pc' = "returned"
    /\ UNCHANGED <<matches, by_severity, by_package, all_cves, scanVars, scoreVars, reportVars, mainVars>>

-----------------------------------------------------------------------------
(* The file system under repo_root.  A path is the sequence of its          *)
(* components below repo_root; the candidate "tests/" is <<"tests", "">>,   *)
(* as split at "/".                                                         *)

\* lines 31-71; None (no exclude_files key) is the missing key
AI_READINESS_FILES == <<
    [key |-> <<"README.md">>,
     info |-> [name |-> "README",
               description |-> "Project overview and getting started guide",
               weight |-> 10,
               alternatives |-> << <<"readme.md">>, <<"README">>, <<"README.rst">> >>]],
    [key |-> <<".openhands", "skills", "repo.md">>,
     info |-> [name |-> "Agent Guidelines",
               description |-> "Static instructions for AI agents (REPO.md, AGENTS.md, etc.)",
               weight |-> 30,
               alternatives |-> << <<".openhands", "microagents", "repo.md">>,
                                   <<"AGENTS.md">> >>]],
    [key |-> <<".openhands", "skills", "">>,
     info |-> [name |-> "Agent Automation",
               description |-> "Setup scripts, task-specific commands, and automation for AI agents",
               weight |-> 30,
               alternatives |-> << <<".openhands", "microagents", "">>,
                                   <<".openhands", "setup.sh">> >>,
               exclude_files |-> <<"repo.md">>]],
    [key |-> <<"tests", "">>,
     info |-> [name |-> "Test Infrastructure",
               description |-> "Tests that allow AI agents to verify their changes",
               weight |-> 30,
               alternatives |-> << <<"test", "">>, <<"__tests__", "">>, <<"spec", "">>,
                                   <<"e2e", "">>, <<"integration", "">>,
                                   <<"cypress", "">>, <<"playwright", "">> >>]] >>

\* repo_root / check_path: pathlib drops the empty component of a trailing "/"
resolve(check_path) == SelectSeq(check_path, LAMBDA n : n # "")

\* the proper prefixes of a path, repo_root itself excluded
Ancestors(p) == {SubSeq(p, 1, n) : n \in 1..(Len(p) - 1)}

\* the last component, Path.name
name_of(p) == p[Len(p)]

is_file(snapshot, p) == p \in snapshot.files
is_dir(snapshot, p) == p = <<>> \/ p \in snapshot.dirs

\* Path.iterdir(): the entries of a directory
iterdir(snapshot, p) ==
    {q \in snapshot.files \cup snapshot.dirs :
        Len(q) = Len(p) + 1 /\ SubSeq(q, 1, Len(p)) = p}

\* Path.rglob("*"): everything below p; a directory that cannot be listed is
\* skipped silently by pathlib
rglob(snapshot, p) ==
    {q \in snapshot.files \cup snapshot.dirs :
        /\ Len(q) > Len(p)
        /\ SubSeq(q, 1, Len(p)) = p
        /\ \A a \in Ancestors(q) : Len(a) > Len(p) => a \notin snapshot.nolist}

\* the component names of the model that contain one of the characters * ? [
\* (no candidate of the rule table has one)
GlobNames == {"*"}

\* lines 103-105
is_glob_pattern(path) == \E i \in DOMAIN path : path[i] \in GlobNames

\* the match of one component: "*" matches every name
fnmatch(name, pat) == pat = "*" \/ name = pat

\* repo_root.glob(pattern): non-recursive, component by component; a
\* wildcard component lists its parent, and pathlib skips silently a parent
\* that cannot be listed
glob(snapshot, pattern) ==
    {q \in snapshot.files \cup snapshot.dirs :
        /\ Len(q) = Len(resolve(pattern))
        /\ \A i \in DOMAIN q :
               /\ fnmatch(q[i], resolve(pattern)[i])
               /\ resolve(pattern)[i] \in GlobNames =>
                      SubSeq(q, 1, i - 1) \notin snapshot.nolist}

\* lines 98-100
glob_exists(snapshot, pattern) == glob(snapshot, pattern) # {}

\* lines 74-95; exclude_files is <<>> for None. A PermissionError of
\* iterdir (a directory in nolist) is caught at line 93.
path_exists_NoExclude(snapshot, full_path, exclude_files) ==
    IF is_file(snapshot, full_path) THEN TRUE
    ELSE IF is_dir(snapshot, full_path)
         THEN IF full_path \in snapshot.nolist THEN FALSE
              ELSE iterdir(snapshot, full_path) # {}
         ELSE FALSE
path_exists_DirAlwaysExists(snapshot, full_path, exclude_files) ==
    is_file(snapshot, full_path) \/ is_dir(snapshot, full_path)
path_exists(snapshot, full_path, exclude_files) ==
    IF is_file(snapshot, full_path) THEN TRUE
    ELSE IF is_dir(snapshot, full_path)
         THEN IF full_path \in snapshot.nolist THEN FALSE
              ELSE IF exclude_files # <<>>
                   THEN \E item \in iterdir(snapshot, full_path) :
                            name_of(item) \notin Range(exclude_files)
                   ELSE iterdir(snapshot, full_path) # {}
         ELSE FALSE

\* line 117
paths_to_check_AltFirst(file_path, alternatives) == alternatives \o <<file_path>>
paths_to_check(file_path, alternatives) == <<file_path>> \o alternatives

\* lines 121-129: the test of one candidate
candidate_exists(snapshot, check_path, exclude_files) ==
    IF is_glob_pattern(check_path)
    THEN glob_exists(snapshot, check_path)
    ELSE path_exists(snapshot, resolve(check_path), exclude_files)

\* lines 118-129: the position in candidates of found_path, 0 for None
found_index(snapshot, candidates, exclude_files) ==
    IF \E i \in DOMAIN candidates : candidate_exists(snapshot, candidates[i], exclude_files)
    THEN CHOOSE i \in DOMAIN candidates :
             /\ candidate_exists(snapshot, candidates[i], exclude_files)
             /\ \A j \in 1..(i - 1) : ~candidate_exists(snapshot, candidates[j], exclude_files)
    ELSE 0

\* {**info, ...}
Merge(d, e) == [k \in DOMAIN d \cup DOMAIN e |-> IF k \in DOMAIN e THEN e[k] ELSE d[k]]

\* content.count("\n")
count_newlines(content) == Cardinality({i \in DOMAIN content : content[i] = "\n"})

\* lines 131-164: the result of a rule whose found_path is given (<<>> for
\* None); read_text of a regular file that is readable
result_of_CountOnly(snapshot, info, found_path) ==
    IF found_path = <<>>
    THEN Merge(info, [exists |-> FALSE])
    ELSE Merge(info, [exists |-> TRUE, found_at |-> found_path,
                      file_count |->
                          Cardinality({f \in rglob(snapshot, resolve(found_path)) :
                                          is_file(snapshot, f)})])
result_of(snapshot, info, found_path) ==
    LET exclude_files == Get(info, "exclude_files", <<>>)
        full_path == resolve(found_path)
    IN  IF found_path = <<>>
        THEN Merge(info, [exists |-> FALSE])
        ELSE IF is_glob_pattern(found_path)
        THEN Merge(info, [exists |-> TRUE, found_at |-> found_path,
                          file_count |-> Cardinality(glob(snapshot, found_path))])
        ELSE IF is_dir(snapshot, full_path)
        THEN Merge(info, [exists |-> TRUE, found_at |-> found_path,
                          file_count |->
                              Cardinality({f \in rglob(snapshot, full_path) :
                                  /\ is_file(snapshot, f)
                                  /\ (exclude_files = <<>>
                                        \/ name_of(f) \notin Range(exclude_files))})])
        ELSE Merge(info, [exists |-> TRUE, found_at |-> found_path,
                          size |-> Len(snapshot.text[full_path]),
                          lines |-> count_newlines(snapshot.text[full_path]) + 1])

-----------------------------------------------------------------------------
(* scan_files: inputs *)

F_readme == <<"README.md">>
F_readme_rst == <<"README.rst">>
F_agents == <<"AGENTS.md">>
F_skills_repo == <<".openhands", "skills", "repo.md">>
F_skills_build == <<".openhands", "skills", "build.md">>
F_skills_sub_repo == <<".openhands", "skills", "ci", "repo.md">>
F_micro_repo == <<".openhands", "microagents", "repo.md">>
F_setup == <<".openhands", "setup.sh">>
F_tests_a == <<"tests", "test_a.py">>
F_playwright == <<"playwright", "e2e.spec.ts">>
D_skills == <<".openhands", "skills">>
D_tests == <<"tests">>
D_tests_unit == <<"tests", "unit">>

\* the regular files a snapshot may hold
FileUniverse ==
    {F_readme, F_readme_rst, F_agents, F_skills_repo, F_skills_build,
     F_skills_sub_repo, F_micro_repo, F_setup, F_tests_a, F_playwright}

\* the directories a snapshot may hold without any file below them
EmptyDirUniverse == {D_skills, D_tests_unit}

\* the files whose read may be denied, the directories whose listing may be
UnreadableUniverse == {F_readme}
UnlistableUniverse == {D_tests}

\* the decoded content of a file
TextOf(p) ==
    IF p = F_readme THEN <<"#", "\n", "x">>
    ELSE IF p = F_readme_rst THEN <<>>
    ELSE <<"x", "\n">>

Snapshot(fileSet, emptyDirs, noread, nolist) ==
    [files |-> fileSet,
     dirs |-> emptyDirs \cup UNION {Ancestors(p) : p \in fileSet \cup emptyDirs},
     noread |-> noread,
     nolist |-> nolist,
     text |-> [p \in fileSet |-> TextOf(p)]]

Snapshots ==
    {s \in {Snapshot(f, e, r, l) :
                f \in SUBSET FileUniverse, e \in SUBSET EmptyDirUniverse,
                r \in SUBSET UnreadableUniverse, l \in SUBSET UnlistableUniverse} :
        s.noread \subseteq s.files /\ s.nolist \subseteq s.dirs}

NoSnapshot == Snapshot({}, {}, {}, {})

\* rule tables other than the built-in one: a glob pattern as primary path
\* and as alternative, a rule without alternatives and weight, a rule with an
\* exclusion set
R_glob ==
    [key |-> <<"tests", "*">>,
     info |-> [weight |-> 15, alternatives |-> << <<"README.md">> >>]]
R_glob_alt ==
    [key |-> <<"README.md">>,
     info |-> [weight |-> 20, alternatives |-> << <<"playwright", "*">> >>]]
R_bare ==
    [key |-> <<"tests", "">>,
     info |-> [category |-> "Testing"]]
R_exclude ==
    [key |-> <<".openhands", "skills", "">>,
     info |-> [weight |-> 15, exclude_files |-> <<"repo.md">>,
               alternatives |-> << <<"AGENTS.md">> >>]]
RuleUniverse == {R_glob, R_glob_alt, R_bare, R_exclude}

\* the longest table other than the built-in one
MaxRules == 3

\* the files of the snapshots scanned with those tables
RuleFiles == {F_readme, F_agents, F_skills_repo, F_tests_a, F_playwright}

\* a dict has no two entries of one key
DistinctKeys(table) ==
    \A i, j \in DOMAIN table : table[i].key = table[j].key => i = j

\* line 110 with a table drawn from RuleUniverse, or the built-in one
ScanInitTables ==
    /\ fs \in Snapshots
    /\ \/ rules = AI_READINESS_FILES
       \/ /\ fs.files \subseteq RuleFiles
          /\ \E n \in 1..MaxRules : \E table \in [1..n -> RuleUniverse] :
                 DistinctKeys(table) /\ rules = table
    /\ results = <<>>
    /\ scan_pc = "scan"

-----------------------------------------------------------------------------
(* scan_files: the call *)

ScanIdle ==
    /\ rules = <<>>
    /\ fs = NoSnapshot
    /\ results = <<>>
    /\ scan_pc = "idle"

\* line 110
ScanInit ==
    /\ rules = AI_READINESS_FILES
    /\ fs \in Snapshots
    /\ results = <<>>
    /\ scan_pc = "scan"

\* lines 112-164: one iteration of the loop over the rule table. The
\* read_text of line 155 raises PermissionError on a file that cannot be
\* read; nothing in scan_files catches it.
ScanRule ==
    /\ scan_pc = "scan"
    /\ Len(results) < Len(rules)
    /\ LET rule == rules[Len(results) + 1]
           alternatives == Get(rule.info, "alternatives", <<>>)
           exclude_files == Get(rule.info, "exclude_files", <<>>)
           candidates == paths_to_check(rule.key, alternatives)
           found == found_index(fs, candidates, exclude_files)
           found_path == IF found = 0 THEN <<>> ELSE candidates[found]
           reads == /\ found # 0
                    /\ ~is_glob_pattern(found_path)
                    /\ ~is_dir(fs, resolve(found_path))
       IN  IF reads /\ resolve(found_path) \in fs.noread
           THEN /\ scan_pc' = "raised"
                /\ UNCHANGED results
           ELSE /\ results' = Append(results,
                                  [key |-> rule.key,
                                   info |-> result_of(fs, rule.info, found_path)])
                /\ UNCHANGED scan_pc
    /\ UNCHANGED <<rules, fs, aggVars, scoreVars, reportVars, mainVars>>

\* line 166
ScanReturn ==
    /\ scan_pc = "scan"
    /\ Len(results) = Len(rules)
    /\ scan_pc' = "returned"
    /\ UNCHANGED <<rules, fs, results, aggVars, scoreVars, reportVars, mainVars>>

-----------------------------------------------------------------------------
(* calculate_basic_score and the score percentages *)

\* truthiness of info.get("exists", False) / info.get("exists")
exists_of_KeyPresent(info) == "exists" \in DOMAIN info
exists_of(info) == Get(info, "exists", FALSE)

\* lines 175-178: the effect of one entry on (earned, possible)
score_step_All(score, info) ==
    LET weight == Get(info, "weight", 10)
    IN  [earned |-> score.earned + weight, possible |-> score.possible + weight]
score_step(score, info) ==
    LET weight == Get(info, "weight", 10)
    IN  [earned |-> IF exists_of(info) THEN score.earned + weight ELSE score.earned,
         possible |-> score.possible + weight]

\* the outcome of an arithmetic expression: a number or ZeroDivisionError
Number(v) == [error |-> FALSE, value |-> v]
ZeroDivisionError == [error |-> TRUE, value |-> 0]

\* int(x) of the quotient a / b: truncation toward zero
Truncated(a, b) ==
    LET n == IF b < 0 THEN -a ELSE a
        d == IF b < 0 THEN -b ELSE b
    IN  IF n >= 0 THEN n \div d ELSE -((-n) \div d)

\* f"{x:.0f}" of the quotient a / b: the nearest integer, ties to even
Rounded(a, b) ==
    LET n == IF b < 0 THEN -a ELSE a
        d == IF b < 0 THEN -b ELSE b
        q == n \div d
        r == n % d
    IN  IF 2 * r < d THEN q
        ELSE IF 2 * r > d THEN q + 1
        ELSE IF q % 2 = 0 THEN q ELSE q + 1

\* int(earned / possible * 100), in exact arithmetic
percent_int(a, b) == IF b = 0 THEN ZeroDivisionError ELSE Number(Truncated(a * 100, b))

\* earned / possible * 100 as printed with :.0f, in exact arithmetic
percent_0f(a, b) == IF b = 0 THEN ZeroDivisionError ELSE Number(Rounded(a * 100, b))

\* line 211 (generate_report_with_agent)
prompt_score_pct(score_earned, score_possible) ==
    IF score_possible > 0 THEN percent_int(score_earned, score_possible)
    ELSE Number(0)

\* line 286 (generate_basic_report), as printed by line 292
report_score_pct(score_earned, score_possible) ==
    IF score_possible > 0 THEN percent_0f(score_earned, score_possible)
    ELSE Number(0)

\* line 391 (main), as printed by line 393
main_score_pct_Unguarded(score_earned, score_possible) ==
    percent_0f(score_earned, score_possible)
main_score_pct(score_earned, score_possible) ==
    IF score_possible > 0 THEN percent_0f(score_earned, score_possible)
    ELSE Number(0)

\* the longest scan_results explored when calculate_basic_score is called
\* on its own
MaxResults == 3

\* the info values of such a call: weight and exists present or missing
Infos ==
    {[name |-> "X"]}
    \cup {[name |-> "X", weight |-> w] : w \in {-10, 0, 10, 30}}
    \cup {[name |-> "X", exists |-> e] : e \in BOOLEAN}
    \cup {[name |-> "X", weight |-> w, exists |-> e] : w \in {-10, 0, 10, 30}, e \in BOOLEAN}

\* the dict whose values are the given infos, in their order
ResultSet(infos) ==
    [i \in DOMAIN infos |-> [key |-> <<"rule", ToString(i)>>, info |-> infos[i]]]

ScoreIdle ==
    /\ scan_results = <<>>
    /\ score_i = 0
    /\ earned = 0
    /\ possible = 0
    /\ score_pc = "idle"
    /\ pct = EmptyDict

\* lines 171-172, for any scan_results
ScoreInit ==
    /\ \E n \in 0..MaxResults :
           \E infos \in [1..n -> Infos] : scan_results = ResultSet(infos)
    /\ score_i = 0
    /\ earned = 0
    /\ possible = 0
    /\ score_pc = "loop"
    /\ pct = EmptyDict

\* main, line 363: calculate_basic_score(scan_results) on what scan_files
\* returned
MainScore ==
    /\ scan_pc = "returned"
    /\ score_pc = "idle"
    /\ scan_results' = results
    /\ score_pc' = "loop"
    /\ UNCHANGED <<score_i, earned, possible, pct, scanVars, aggVars, reportVars, mainVars>>

\* lines 174-178: one iteration
ScoreStep ==
    /\ score_pc = "loop"
    /\ score_i < Len(scan_results)
    /\ LET next == score_step([earned |-> earned, possible |-> possible],
                              scan_results[score_i + 1].info)
       IN  /\ earned' = next.earned
           /\ possible' = next.possible
    /\ score_i' = score_i + 1
    /\ UNCHANGED <<scan_results, score_pc, pct, scanVars, aggVars, reportVars, mainVars>>

\* line 180
ScoreReturn ==
    /\ score_pc = "loop"
    /\ score_i = Len(scan_results)
    /\ score_pc' = "returned"
    /\ UNCHANGED <<scan_results, score_i, earned, possible, pct, scanVars, aggVars, reportVars, mainVars>>

\* lines 211, 286 and 391: the percentages computed from the returned score
ScorePercent ==
    /\ score_pc = "returned"
    /\ pct' = [prompt |-> prompt_score_pct(earned, possible),
               report |-> report_score_pct(earned, possible),
               main |-> main_score_pct(earned, possible)]
    /\ score_pc' = "reported"
    /\ UNCHANGED <<scan_results, score_i, earned, possible, scanVars, aggVars, reportVars, mainVars>>

-----------------------------------------------------------------------------
(* generate_basic_report of cve_report.py: the package table *)

\* line 200: severity_order of generate_basic_report, a dict
report_severity_order ==
    [Critical |-> 0, High |-> 1, Medium |-> 2, Low |-> 3, Negligible |-> 4,
     Unknown |-> 5]

\* lines 203-204: the key of the sort, a tuple
sort_key_CountAscending(x) ==
    <<Get(report_severity_order, x.max_severity, 5), Len(x.cves)>>
sort_key(x) ==
    <<Get(report_severity_order, x.max_severity, 5), -Len(x.cves)>>

\* the order of two tuples of two numbers: a <= b
tuple_le(a, b) == a[1] < b[1] \/ (a[1] = b[1] /\ a[2] <= b[2])

\* lines 201-205: sorted(list, key=...), a stable sort, computed by inserting
\* each element behind the elements already placed whose key is not larger
RECURSIVE sorted(_)
sorted(list) ==
    IF list = <<>> THEN <<>>
    ELSE LET placed == sorted(SubSeq(list, 1, Len(list) - 1))
             x == list[Len(list)]
             n == Cardinality({i \in DOMAIN placed :
                                  tuple_le(sort_key(placed[i]), sort_key(x))})
         IN  SubSeq(placed, 1, n) \o <<x>> \o SubSeq(placed, n + 1, Len(placed))

\* line 208: sorted_packages[:15], the rows of the table
package_rows(packages) ==
    SubSeq(packages, 1, IF Len(packages) < 15 THEN Len(packages) ELSE 15)

ReportIdle ==
    /\ sorted_packages = <<>>
    /\ basic_pc = "idle"

\* lines 152-231 on the summary that summarize_cves returned
GenerateBasicReport ==
    /\ agg_pc = "returned"
    /\ basic_pc = "idle"
    /\ sorted_packages' = sorted(summary.by_package)
    /\ basic_pc' = "generated"
    /\ UNCHANGED <<aggVars, scanVars, scoreVars, mainVars>>

-----------------------------------------------------------------------------
(* main of the three scripts *)

Scripts == {"ai_readiness", "cve", "sbom"}

\* str.lower() of one character, for the letters the model uses
lower_char(c) ==
    CASE c = "T" -> "t"
      [] c = "R" -> "r"
      [] c = "U" -> "u"
      [] c = "E" -> "e"
      [] OTHER -> c

\* str.lower()
lower_Identity(str) == str
lower(str) == [i \in DOMAIN str |-> lower_char(str[i])]

Str_true == <<"t", "r", "u", "e">>
Str_false == <<"f", "a", "l", "s", "e">>

\* os.environ: the values LLM_API_KEY and CVE_FAIL_ON_CRITICAL may have when set
ApiKeyValues == {<<>>, <<"k">>}
FailOnCriticalValues ==
    {Str_true, <<"T", "r", "u", "e">>, <<"T", "R", "U", "E">>, Str_false,
     <<"1">>, <<>>, <<"t", "r", "u", "e", " ">>}
Environments ==
    UNION {{e \in [names -> ApiKeyValues \cup FailOnCriticalValues] :
               /\ "LLM_API_KEY" \in names => e["LLM_API_KEY"] \in ApiKeyValues
               /\ "CVE_FAIL_ON_CRITICAL" \in names =>
                      e["CVE_FAIL_ON_CRITICAL"] \in FailOnCriticalValues} :
           names \in SUBSET {"LLM_API_KEY", "CVE_FAIL_ON_CRITICAL"}}

\* os.getenv(name, default)
getenv(environ, name, default) == Get(environ, name, default)

\* the test "if api_key:" on os.getenv("LLM_API_KEY"): set and not empty
api_key_set(environ) ==
    "LLM_API_KEY" \in DOMAIN environ /\ environ["LLM_API_KEY"] # <<>>

\* cve_report.py:414-415: the condition of the failing exit
fail_on_critical(environ, critical_count) ==
    /\ critical_count > 0
    /\ lower(getenv(environ, "CVE_FAIL_ON_CRITICAL", Str_false)) = Str_true

\* report_path.exists()
report_path_exists_Never(file) == FALSE
report_path_exists(file) == file # "absent"

\* the findings grype may report to a main
MainMatches ==
    {m \in SeverityMatches : m.vulnerability.severity \in {"Critical", "High", "Moderate"}}

MainIdle ==
    /\ script = "none"
    /\ main_pc = "idle"
    /\ env = EmptyDict
    /\ report = "absent"
    /\ agent = "not_run"
    /\ basic_written = FALSE
    /\ exit_status = "running"
    /\ cve_raw = "absent"
    /\ scan_data = "none"

\* the entry of main: ai_readiness_report.py:358-362 (scan_files is called
\* first), cve_report.py:356-364, sbom_report.py:488-496. A report of the
\* same date and a reports/cve-raw.json may be left over from an earlier run.
MainInit ==
    /\ script \in Scripts
    /\ main_pc = (CASE script = "ai_readiness" -> "scan"
                   [] script = "cve" -> "install_grype"
                   [] script = "sbom" -> "install_syft")
    /\ env \in Environments
    /\ script # "cve" => "CVE_FAIL_ON_CRITICAL" \notin DOMAIN env
    /\ report \in {"absent", "stale"}
    /\ agent = "not_run"
    /\ basic_written = FALSE
    /\ exit_status = "running"
    /\ cve_raw \in (IF script = "ai_readiness" THEN {"absent"} ELSE {"absent", "stale"})
    /\ scan_data = "none"
    /\ IF script = "ai_readiness"
       THEN /\ rules = AI_READINESS_FILES
            /\ fs \in {snapshot \in Snapshots :
                           snapshot.files \subseteq {F_readme} /\ snapshot.dirs = {}}
            /\ results = <<>>
            /\ scan_pc = "scan"
       ELSE ScanIdle

\* sbom_report.py:496-498
MainInstallSyft ==
    /\ main_pc = "install_syft"
    /\ \E installed \in BOOLEAN :
           IF installed
           THEN main_pc' = "generate_sbom" /\ UNCHANGED exit_status
           ELSE main_pc' = "exit_tool" /\ exit_status' = "fail"
    /\ UNCHANGED <<script, env, report, agent, basic_written, cve_raw, scan_data>>
    /\ UNCHANGED <<aggVars, scanVars, scoreVars, reportVars>>

\* sbom_report.py:501-507: generate_sbom and summarize_sbom
MainGenerateSbom ==
    /\ main_pc = "generate_sbom"
    /\ \E generated \in BOOLEAN :
           IF generated
           THEN main_pc' = "install_grype" /\ UNCHANGED exit_status
           ELSE main_pc' = "exit_tool" /\ exit_status' = "fail"
    /\ UNCHANGED <<script, env, report, agent, basic_written, cve_raw, scan_data>>
    /\ UNCHANGED <<aggVars, scanVars, scoreVars, reportVars>>

\* cve_report.py:364-372, where a failure of install_grype or of the scan
\* ends main with status 1; sbom_report.py:510-522, where it leaves
\* cve_summary None and main goes on to the report
cve_stage_failure_Exit(sc) == "exit_tool"
cve_stage_failure(sc) == IF sc = "cve" THEN "exit_tool" ELSE "report"

\* cve_report.py:364-366, sbom_report.py:511 and 521-522
MainInstallGrype ==
    /\ main_pc = "install_grype"
    /\ \E installed \in BOOLEAN :
           main_pc' = IF installed THEN "grype_scan" ELSE cve_stage_failure(script)
    /\ exit_status' = IF main_pc' = "exit_tool" THEN "fail" ELSE exit_status
    /\ UNCHANGED <<script, env, report, agent, basic_written, cve_raw, scan_data>>
    /\ UNCHANGED <<aggVars, scanVars, scoreVars, reportVars>>

\* the ways the grype process started at cve_report.py:58 may end: with the
\* output file written, without it (whatever its return code), or with
\* subprocess.run raising (TimeoutExpired, or grype cannot be started)
GrypeOutcomes == {"wrote", "nothing", "raised"}

\* reports/cve-raw.json after the process
raw_after(file, grype) == IF grype = "wrote" THEN "fresh" ELSE file

\* cve_report.py:51-84, sbom_report.py:72-105: the value returned, "none" for
\* None; the test of line 68 is on the existence of the file
run_grype_scan(file, grype) ==
    IF grype = "raised" THEN "none"
    ELSE IF raw_after(file, grype) = "absent" THEN "none"
    ELSE raw_after(file, grype)

\* cve_report.py:369-375, sbom_report.py:513-520: the scan returns data, and
\* summarize_cves is entered, or None
MainRunScan ==
    /\ main_pc = "grype_scan"
    /\ \E grype \in GrypeOutcomes :
           /\ cve_raw' = raw_after(cve_raw, grype)
           /\ scan_data' = run_grype_scan(cve_raw, grype)
    /\ IF scan_data' # "none"
       THEN main_pc' = "summarize" /\ agg_pc' = "loop"
       ELSE main_pc' = cve_stage_failure(script) /\ UNCHANGED agg_pc
    /\ exit_status' = IF main_pc' = "exit_tool" THEN "fail" ELSE exit_status
    /\ UNCHANGED <<script, env, report, agent, basic_written>>
    /\ UNCHANGED <<matches, by_severity, by_package, all_cves, summary>>
    /\ UNCHANGED <<scanVars, scoreVars, reportVars>>

\* cve_report.py:375, sbom_report.py:515: summarize_cves has returned;
\* ai_readiness_report.py:362-363: calculate_basic_score has
MainStageDone ==
    /\ \/ main_pc = "summarize" /\ agg_pc = "returned"
       \/ main_pc = "scan" /\ score_pc = "returned"
    /\ main_pc' = "report"
    /\ UNCHANGED <<script, env, report, agent, basic_written, exit_status, cve_raw, scan_data>>
    /\ UNCHANGED <<aggVars, scanVars, scoreVars, reportVars>>

\* an exception of summarize_cves or of scan_files, which main does not catch
MainRaised ==
    /\ \/ main_pc = "summarize" /\ agg_pc = "raised"
       \/ main_pc = "scan" /\ scan_pc = "raised"
    /\ main_pc' = "crashed"
    /\ exit_status' = "fail"
    /\ UNCHANGED <<script, env, report, agent, basic_written, cve_raw, scan_data>>
    /\ UNCHANGED <<aggVars, scanVars, scoreVars, reportVars>>

\* ai_readiness_report.py:366-374 and 385-388, cve_report.py:383-386 and
\* 399-402, sbom_report.py:525-528 and 541-544: without an API key the basic
\* report is written; with one the agent is started
MainReport ==
    /\ main_pc = "report"
    /\ IF api_key_set(env)
       THEN /\ main_pc' = "agent"
            /\ UNCHANGED <<report, basic_written>>
       ELSE /\ report' = "basic"
            /\ basic_written' = TRUE
            /\ main_pc' = "reported"
    /\ UNCHANGED <<script, env, agent, exit_status, cve_raw, scan_data>>
    /\ UNCHANGED <<aggVars, scanVars, scoreVars, reportVars>>

\* ai_readiness_report.py:376, cve_report.py:389, sbom_report.py:531: the
\* agent call returns, having written the report file or not
MainAgentReturns ==
    /\ main_pc = "agent"
    /\ \E wrote \in BOOLEAN : report' = IF wrote THEN "agent" ELSE report
    /\ agent' = "returned"
    /\ main_pc' = "verify"
    /\ UNCHANGED <<script, env, basic_written, exit_status, cve_raw, scan_data>>
    /\ UNCHANGED <<aggVars, scanVars, scoreVars, reportVars>>

\* ai_readiness_report.py:378-380, cve_report.py:391-394,
\* sbom_report.py:533-536
MainVerify ==
    /\ main_pc = "verify"
    /\ IF ~report_path_exists(report)
       THEN report' = "basic" /\ basic_written' = TRUE
       ELSE UNCHANGED <<report, basic_written>>
    /\ main_pc' = "reported"
    /\ UNCHANGED <<script, env, agent, exit_status, cve_raw, scan_data>>
    /\ UNCHANGED <<aggVars, scanVars, scoreVars, reportVars>>

\* the agent call raises an Exception, having written the report file or not
MainAgentRaises ==
    /\ main_pc = "agent"
    /\ \E wrote \in BOOLEAN : report' = IF wrote THEN "agent" ELSE report
    /\ agent' = "raised"
    /\ main_pc' = "except"
    /\ UNCHANGED <<script, env, basic_written, exit_status, cve_raw, scan_data>>
    /\ UNCHANGED <<aggVars, scanVars, scoreVars, reportVars>>

\* ai_readiness_report.py:381-384, cve_report.py:395-398,
\* sbom_report.py:537-540
MainExcept ==
    /\ main_pc = "except"
    /\ report' = "basic"
    /\ basic_written' = TRUE
    /\ main_pc' = "reported"
    /\ UNCHANGED <<script, env, agent, exit_status, cve_raw, scan_data>>
    /\ UNCHANGED <<aggVars, scanVars, scoreVars, reportVars>>

\* sbom_report.py:510-515: cve_summary, None (here the empty dict, falsy as
\* None is at line 238) until summarize_cves has returned
cve_summary ==
    IF script = "sbom" /\ agg_pc = "returned" THEN summary ELSE EmptyDict

\* cve_report.py:413: summary['by_severity'].get('Critical', 0)
critical_count(s) == Get(s.by_severity, "Critical", 0)

\* the end of main: cve_report.py:405-417 with the failing exit of line 417,
\* ai_readiness_report.py:391-394, sbom_report.py:546-554
MainEnd ==
    /\ main_pc = "reported"
    /\ IF script = "cve" /\ fail_on_critical(env, critical_count(summary))
       THEN main_pc' = "exit_critical" /\ exit_status' = "fail"
       ELSE main_pc' = "done" /\ exit_status' = "ok"
    /\ UNCHANGED <<script, env, report, agent, basic_written, cve_raw, scan_data>>
    /\ UNCHANGED <<aggVars, scanVars, scoreVars, reportVars>>

-----------------------------------------------------------------------------
(* Specifications *)

\* summarize_cves on every matches list of at most MaxMatches records
InitAgg == AggInit /\ ScanIdle /\ ScoreIdle /\ ReportIdle /\ MainIdle
NextAgg ==
    \/ \E match \in RawMatches : ProcessMatch(match)
    \/ ReturnSummary
    \/ GenerateBasicReport
SpecAgg == InitAgg /\ [][NextAgg]_vars

\* main of ai_readiness_report.py, lines 362-363 and 391, on every snapshot
InitScan == AggIdle /\ ScanInit /\ ScoreIdle /\ ReportIdle /\ MainIdle
NextScan == ScanRule \/ ScanReturn \/ MainScore \/ ScoreStep \/ ScoreReturn \/ ScorePercent
SpecScan == InitScan /\ [][NextScan]_vars

\* calculate_basic_score and the percentages on every result set of at most
\* MaxResults entries
InitScore == AggIdle /\ ScanIdle /\ ScoreInit /\ ReportIdle /\ MainIdle
NextScore == ScoreStep \/ ScoreReturn \/ ScorePercent
SpecScore == InitScore /\ [][NextScore]_vars

\* scan_files on every snapshot and every rule table of at most MaxRules rules
InitRules == AggIdle /\ ScanInitTables /\ ScoreIdle /\ ReportIdle /\ MainIdle
NextRules == ScanRule \/ ScanReturn
SpecRules == InitRules /\ [][NextRules]_vars

\* main of the three scripts, on every environment, tool outcome and agent
\* outcome. main is sequential, so a step that can be taken is taken; the
\* agent call is taken to end, by returning or by raising.
InitMain == AggIdle /\ ScoreIdle /\ ReportIdle /\ MainInit
NextMain ==
    \/ MainInstallSyft
    \/ MainGenerateSbom
    \/ MainInstallGrype
    \/ MainRunScan
    \/ \E match \in MainMatches : ProcessMatch(match)
    \/ ReturnSummary
    \/ ScanRule
    \/ ScanReturn
    \/ MainScore
    \/ ScoreStep
    \/ ScoreReturn
    \/ MainStageDone
    \/ MainRaised
    \/ MainReport
    \/ MainAgentReturns
    \/ MainVerify
    \/ MainAgentRaises
    \/ MainExcept
    \/ MainEnd
SpecMain == InitMain /\ [][NextMain]_vars /\ WF_vars(NextMain)

Init == InitAgg \/ InitScan \/ InitScore \/ InitRules \/ InitMain
Next == NextAgg \/ NextScan \/ NextScore \/ NextRules \/ NextMain
Spec == Init /\ [][Next]_vars

-----------------------------------------------------------------------------
(* Properties of summarize_cves, checked under SpecAgg *)

\* the sum of the values of a dict of numbers
RECURSIVE SumOfKeys(_, _)
SumOfKeys(d, keys) ==
    IF keys = {} THEN 0
    ELSE LET k == CHOOSE x \in keys : TRUE
         IN  d[k] + SumOfKeys(d, keys \ {k})
SumValues(d) == SumOfKeys(d, DOMAIN d)

\* the severity string of an input record
InputSeverity(match) == Get(Get(match, "vulnerability", EmptyDict), "severity", "Unknown")

Recognized(sev) == sev \in Range(SeverityKeys)

\* C1: summarize_cves never raises on a finding whose severity string is
\* outside the six-value enumeration: the call returns, and every such
\* finding is held by the Unknown bucket of the returned summary.
C1_UnrecognizedCountedUnknown ==
    /\ agg_pc # "raised"
    /\ agg_pc = "returned" =>
           \A i \in DOMAIN matches :
               ~Recognized(InputSeverity(matches[i])) =>
                   \E j \in DOMAIN summary.by_severity_details["Unknown"] :
                       summary.by_severity_details["Unknown"][j] = cve_info_of(matches[i])

SeverityRank(sev) ==
    IF Recognized(sev) THEN index(SeverityKeys, sev) ELSE index(SeverityKeys, "Unknown")

\* max_severity of a group is in the enumeration and its rank is the lowest
\* rank among the group's findings
GroupMaxIsMostSevere(group) ==
    /\ group.cves # <<>>
    /\ Recognized(group.max_severity)
    /\ \E i \in DOMAIN group.cves :
           SeverityRank(group.cves[i].severity) = SeverityRank(group.max_severity)
    /\ \A i \in DOMAIN group.cves :
           SeverityRank(group.max_severity) <= SeverityRank(group.cves[i].severity)

\* C3: after every insertion of a finding into a package group, and in the
\* returned summary, the group's max_severity is the most severe severity
\* among the findings the group holds.
C3_MaxSeverityIsMostSevere ==
    /\ \A g \in DOMAIN by_package : GroupMaxIsMostSevere(by_package[g])
    /\ agg_pc = "returned" =>
           \A g \in DOMAIN summary.by_package : GroupMaxIsMostSevere(summary.by_package[g])

\* C3 witness: a group whose second finding is more severe than its first,
\* followed by a less severe one
C3_Witness ==
    \E g \in DOMAIN by_package :
        /\ Len(by_package[g].cves) = 3
        /\ by_package[g].cves[1].severity = "Low"
        /\ by_package[g].cves[2].severity = "Critical"
        /\ by_package[g].cves[3].severity = "High"
        /\ by_package[g].max_severity = "Critical"

\* a group holds a finding
InGroup(group, info) == \E k \in DOMAIN group.cves : group.cves[k] = info

\* C4: two findings land in the same by_package group if and only if they
\* have the same package name and the same package version.
C4_GroupedByNameAndVersion ==
    \A i, j \in DOMAIN all_cves :
        (\E g \in DOMAIN by_package :
             InGroup(by_package[g], all_cves[i]) /\ InGroup(by_package[g], all_cves[j]))
        <=> (/\ all_cves[i].package = all_cves[j].package
             /\ all_cves[i].version = all_cves[j].version)

\* the number of findings held by all groups together
GroupSizes(bp) == SumSeq([g \in DOMAIN bp |-> Len(bp[g].cves)])

\* every record consumed so far is retained once: in all_cves, in one
\* severity bucket and in one package group, a missing name or version
\* being the sentinel
RetainedOnce ==
    /\ Len(all_cves) = Len(matches)
    /\ SumValues(severity_counts(by_severity)) = Len(matches)
    /\ GroupSizes(by_package) = Len(matches)
    /\ \A i \in DOMAIN matches :
           LET artifact == Get(matches[i], "artifact", EmptyDict)
           IN  /\ all_cves[i].package = Get(artifact, "name", Unknown_str)
               /\ all_cves[i].version = Get(artifact, "version", Unknown_str)
               /\ \E g \in DOMAIN by_package : InGroup(by_package[g], all_cves[i])
               /\ \E k \in DOMAIN by_severity :
                      \E n \in DOMAIN by_severity[k] : by_severity[k][n] = all_cves[i]

\* C5: summarize_cves is total on malformed records: no record makes the
\* call fail, and every record is retained exactly once, with the sentinel
\* for missing subject fields.
C5_TotalOnMalformedRecords ==
    /\ agg_pc # "raised"
    /\ RetainedOnce

\* C5, the part that holds: as long as every severity string is one of the
\* six, records with missing fields are retained once and the call goes on
C5_MissingFieldsRetained ==
    (\A i \in DOMAIN matches : Recognized(InputSeverity(matches[i]))) =>
        /\ agg_pc # "raised"
        /\ RetainedOnce

\* the number of consumed records whose severity string is sev
Occurrences(sev) ==
    Cardinality({i \in DOMAIN matches : InputSeverity(matches[i]) = sev})

C15_StoredSeverityIsBucketKey ==
    \A k \in DOMAIN by_severity :
        \A j \in DOMAIN by_severity[k] :
            /\ Recognized(by_severity[k][j].severity)
            /\ by_severity[k][j].severity = k

\* C15, the part that holds: the findings of a returned summary have the
\* severity of their bucket
C15_ReturnedSeverityIsBucketKey ==
    agg_pc = "returned" =>
        \A k \in DOMAIN summary.by_severity_details :
            \A j \in DOMAIN summary.by_severity_details[k] :
                summary.by_severity_details[k][j].severity = k

\* C16: in the returned summary the fix_versions of each group are the
\* union of the fix versions of its findings, each listed once.
C16_FixVersionsAreUnion ==
    agg_pc = "returned" =>
        \A g \in DOMAIN summary.by_package :
            LET group == summary.by_package[g]
            IN  /\ Range(group.fix_versions) =
                       UNION {Range(group.cves[j].fix_versions) : j \in DOMAIN group.cves}
                /\ Cardinality(Range(group.fix_versions)) = Len(group.fix_versions)

\* C16 witness: a group of two findings whose fix versions overlap, the
\* later one fixing in fewer versions
C16_Witness ==
    /\ agg_pc = "returned"
    /\ \E g \in DOMAIN summary.by_package :
           LET group == summary.by_package[g]
           IN  /\ Len(group.cves) = 2
               /\ group.cves[1].fix_versions = <<"2.1", "2.0", "2.1">>
               /\ group.cves[2].fix_versions = <<"2.0">>
               /\ Len(group.fix_versions) = 2

\* the position of a group in the summary, by first encounter
EncounterOf(group) ==
    CHOOSE i \in DOMAIN summary.by_package : summary.by_package[i].key = group.key

\* C19: the rows of the package table are the groups of the summary ordered
\* by the rank of max_severity, most severe first, then by number of findings,
\* larger first; groups equal in both keep their order of first encounter.
C19_PackageTableOrder ==
    basic_pc = "generated" =>
        LET rows == package_rows(sorted_packages)
        IN  /\ Len(rows) = Len(summary.by_package)
            /\ Range(rows) = Range(summary.by_package)
            /\ \A i, j \in DOMAIN rows :
                   i < j =>
                       LET ri == SeverityRank(rows[i].max_severity)
                           rj == SeverityRank(rows[j].max_severity)
                           ni == Len(rows[i].cves)
                           nj == Len(rows[j].cves)
                       IN  \/ ri < rj
                           \/ ri = rj /\ ni > nj
                           \/ ri = rj /\ ni = nj /\ EncounterOf(rows[i]) < EncounterOf(rows[j])

\* C19 witness: two groups of one severity, the one with more findings
\* placed first although it was encountered later
C19_Witness ==
    /\ basic_pc = "generated"
    /\ Len(sorted_packages) >= 2
    /\ \E i, j \in DOMAIN sorted_packages :
           /\ i < j
           /\ sorted_packages[i].max_severity = sorted_packages[j].max_severity
           /\ Len(sorted_packages[i].cves) > Len(sorted_packages[j].cves)
           /\ EncounterOf(sorted_packages[i]) > EncounterOf(sorted_packages[j])

-----------------------------------------------------------------------------
(* Properties of scan_files, checked under SpecScan *)

\* the rule that produced the i-th result
RuleOf(i) == rules[i]

\* the candidates of a rule: its primary path, then its alternatives as listed
CandidatesOf(rule) == <<rule.key>> \o rule.info.alternatives

ExcludedOf(rule) == Get(rule.info, "exclude_files", <<>>)

\* p is a directory that can be listed and has an entry that is not excluded
NonEmptyDir(snapshot, p, excluded) ==
    /\ p \in snapshot.dirs
    /\ p \notin snapshot.nolist
    /\ \E q \in snapshot.files \cup snapshot.dirs :
           /\ Len(q) = Len(p) + 1
           /\ SubSeq(q, 1, Len(p)) = p
           /\ q[Len(q)] \notin Range(excluded)

\* C6: for every rule, found_at is the first candidate, in the order primary
\* path then alternatives as listed, that exists, and a rule none of whose
\* candidates exists is reported missing; a primary path that is a non-empty
\* directory wins even when an alternative exists too.
C6_FirstMatchWins ==
    \A i \in DOMAIN results :
        LET rule == RuleOf(i)
            cands == CandidatesOf(rule)
            info == results[i].info
            ok(k) == candidate_exists(fs, cands[k], ExcludedOf(rule))
        IN  /\ info.exists =>
                \E k \in DOMAIN cands :
                    /\ info.found_at = cands[k]
                    /\ ok(k)
                    /\ \A j \in 1..(k - 1) : ~ok(j)
            /\ ~info.exists => \A k \in DOMAIN cands : ~ok(k)
            /\ NonEmptyDir(fs, resolve(rule.key), ExcludedOf(rule)) =>
                   info.exists /\ info.found_at = rule.key

\* C6 witness: tests/ is a non-empty directory, the alternative playwright/
\* exists too, and found_at is tests/
C6_Witness ==
    /\ Len(results) = 4
    /\ NonEmptyDir(fs, D_tests, <<>>)
    /\ NonEmptyDir(fs, <<"playwright">>, <<>>)
    /\ results[4].info.exists
    /\ results[4].info.found_at = <<"tests", "">>

\* the names of the entries of a directory
EntryNames(snapshot, p) ==
    {q[Len(q)] : q \in {x \in snapshot.files \cup snapshot.dirs :
                           Len(x) = Len(p) + 1 /\ SubSeq(x, 1, Len(p)) = p}}

\* the position of the rule whose exclusion set is {"repo.md"}
AutomationRule ==
    CHOOSE i \in DOMAIN AI_READINESS_FILES : AI_READINESS_FILES[i].key = <<".openhands", "skills", "">>

\* C7: under the exclusion set {"repo.md"} a directory candidate that holds
\* only an entry named repo.md does not exist: it is not found_at, and the
\* rule is missing when it has no other candidate; the same directory with
\* one more entry of another name exists and is found_at.
C7_ExcludedOnlyDirIsEmpty ==
    Len(results) >= AutomationRule =>
        LET rule == RuleOf(AutomationRule)
            info == results[AutomationRule].info
            names == EntryNames(fs, D_skills)
            listable == D_skills \in fs.dirs /\ D_skills \notin fs.nolist
        IN  /\ ExcludedOf(rule) = <<"repo.md">>
            /\ (listable /\ names = {"repo.md"}) =>
                   /\ Get(info, "found_at", <<>>) # rule.key
                   /\ (\A k \in 2..Len(CandidatesOf(rule)) :
                           resolve(CandidatesOf(rule)[k]) \notin fs.files \cup fs.dirs)
                          => ~info.exists
            /\ (listable /\ "repo.md" \in names /\ names # {"repo.md"}) =>
                   info.exists /\ info.found_at = rule.key

\* C7 witness: .openhands/skills/ holds repo.md alone, no other candidate of
\* the rule is there, and the rule is reported missing
C7_Witness ==
    /\ Len(results) >= AutomationRule
    /\ EntryNames(fs, D_skills) = {"repo.md"}
    /\ ~results[AutomationRule].info.exists

\* C8: for every snapshot scan_files returns, and what it returns holds
\* exactly one result per rule, in the order of the rules.
C8_OneResultPerRule ==
    /\ scan_pc # "raised"
    /\ scan_pc = "returned" =>
           /\ Len(results) = Len(AI_READINESS_FILES)
           /\ \A i \in DOMAIN results : results[i].key = AI_READINESS_FILES[i].key

\* C8, the part that holds: a call that returns holds one result per rule,
\* in the order of the rules, whether or not a candidate matched
C8_ReturnedOnePerRule ==
    scan_pc = "returned" =>
        /\ Len(results) = Len(AI_READINESS_FILES)
        /\ \A i \in DOMAIN results : results[i].key = AI_READINESS_FILES[i].key

\* a candidate that is a regular file, or a directory that can be listed and
\* has an entry that is not excluded
Present(snapshot, check_path, excluded) ==
    \/ resolve(check_path) \in snapshot.files
    \/ NonEmptyDir(snapshot, resolve(check_path), excluded)

\* C11: a directory candidate whose listing is denied is treated as not
\* existing: the denial does not end the call, the candidate is never
\* found_at, and the first of the other candidates that is there wins.
C11_UnlistableDirSkipped ==
    /\ fs.noread = {} => scan_pc # "raised"
    /\ \A i \in DOMAIN results :
           LET rule == RuleOf(i)
               cands == CandidatesOf(rule)
               info == results[i].info
           IN  \A c \in DOMAIN cands :
                   resolve(cands[c]) \in fs.nolist =>
                       /\ ~(info.exists /\ info.found_at = cands[c])
                       /\ \A d \in (c + 1)..Len(cands) :
                              (/\ Present(fs, cands[d], ExcludedOf(rule))
                               /\ \A j \in 1..(d - 1) :
                                      ~Present(fs, cands[j], ExcludedOf(rule)))
                              => info.exists /\ info.found_at = cands[d]

\* the position of the rule whose primary path is tests/
TestsRule ==
    CHOOSE i \in DOMAIN AI_READINESS_FILES : AI_READINESS_FILES[i].key = <<"tests", "">>

\* C11 witness: tests/ holds a file but cannot be listed, playwright/ can,
\* and the rule is found at playwright/
C11_Witness ==
    /\ Len(results) >= TestsRule
    /\ D_tests \in fs.nolist
    /\ F_tests_a \in fs.files
    /\ results[TestsRule].info.exists
    /\ results[TestsRule].info.found_at = <<"playwright", "">>

\* C12: scan_files never fails on an access error: it returns a result for
\* every rule, and a candidate that cannot be read is not reported found.
C12_NoAccessErrorEscapes ==
    /\ scan_pc # "raised"
    /\ scan_pc = "returned" => Len(results) = Len(rules)
    /\ \A i \in DOMAIN results :
           results[i].info.exists => resolve(results[i].info.found_at) \notin fs.noread

\* C13: every result carries at most one measure: file_count and no lines
\* when found_at is a directory or a glob pattern, lines and no file_count
\* when it is a regular file, neither measure and no found_at when the rule
\* is missing; a result that exists always has found_at.
C13_AtMostOneMeasure ==
    \A i \in DOMAIN results :
        LET info == results[i].info
            has(k) == k \in DOMAIN info
        IN  /\ ~(has("file_count") /\ has("lines"))
            /\ ~info.exists =>
                   ~has("file_count") /\ ~has("lines") /\ ~has("found_at")
            /\ info.exists =>
                   /\ has("found_at")
                   /\ IF \/ "*" \in Range(info.found_at)
                         \/ resolve(info.found_at) \in fs.dirs
                      THEN has("file_count") /\ ~has("lines")
                      ELSE /\ resolve(info.found_at) \in fs.files
                           /\ has("lines") /\ ~has("file_count")

\* C13 witness: one table gives a result found at a glob pattern, one found
\* at a regular file and one found at a directory
C13_Witness ==
    /\ rules = <<R_glob, R_glob_alt, R_bare>>
    /\ Len(results) = Len(rules)
    /\ \A i \in DOMAIN results : results[i].info.exists
    /\ results[1].info.found_at = <<"tests", "*">>
    /\ "file_count" \in DOMAIN results[1].info
    /\ results[2].info.found_at = <<"README.md">>
    /\ "lines" \in DOMAIN results[2].info
    /\ results[3].info.found_at = <<"tests", "">>
    /\ "file_count" \in DOMAIN results[3].info

-----------------------------------------------------------------------------
(* Properties of calculate_basic_score, checked under SpecScore *)

\* the weight of an entry, 10 when it has none (line 175)
WeightOf(entry) == Get(entry.info, "weight", 10)
EarnedWeightOf(entry) == IF Get(entry.info, "exists", FALSE) THEN WeightOf(entry) ELSE 0

Scored == score_pc \in {"returned", "reported"}

\* C9: calculate_basic_score returns possible = the sum of the weights of
\* all results and earned = the sum of the weights of the results that
\* exist, so 0 <= earned <= possible when every weight is positive.
C9_ScoreSums ==
    Scored =>
        /\ possible = SumSeq([i \in DOMAIN scan_results |-> WeightOf(scan_results[i])])
        /\ earned = SumSeq([i \in DOMAIN scan_results |-> EarnedWeightOf(scan_results[i])])
        /\ (\A i \in DOMAIN scan_results : WeightOf(scan_results[i]) > 0) =>
               0 <= earned /\ earned <= possible

\* C9 witness: three results of positive weight, some found and some missing
C9_Witness ==
    /\ Scored
    /\ Len(scan_results) = 3
    /\ \A i \in DOMAIN scan_results : WeightOf(scan_results[i]) > 0
    /\ 0 < earned
    /\ earned < possible

\* C10: calculate_basic_score of an empty result set is (0, 0), and each of
\* the three percentages is 0, not a division by zero, when possible = 0.
C10_ZeroPossibleGivesZero ==
    /\ (Scored /\ scan_results = <<>>) => earned = 0 /\ possible = 0
    /\ (score_pc = "reported" /\ possible = 0) =>
           /\ pct.prompt = Number(0)
           /\ pct.report = Number(0)
           /\ pct.main = Number(0)

\* C10 witness: the percentages of the empty result set
C10_Witness ==
    /\ score_pc = "reported"
    /\ scan_results = <<>>
    /\ possible = 0
    /\ pct.main = Number(0)

-----------------------------------------------------------------------------
(* Properties of main of ai_readiness_report.py, checked under SpecScan *)

\* a category is found when one of the candidates of its rule is there
CategoryFound(snapshot, rule) ==
    \E c \in DOMAIN CandidatesOf(rule) :
        Present(snapshot, CandidatesOf(rule)[c], ExcludedOf(rule))

-----------------------------------------------------------------------------
(* Properties of the three main flows, checked under SpecMain *)

\* the value equals "true" when case is ignored
EqualsTrueIgnoringCase(value) ==
    /\ Len(value) = 4
    /\ value[1] \in {"t", "T"}
    /\ value[2] \in {"r", "R"}
    /\ value[3] \in {"u", "U"}
    /\ value[4] \in {"e", "E"}

\* the number of Critical findings among the records summarized
CriticalFindings ==
    Cardinality({i \in DOMAIN matches : InputSeverity(matches[i]) = "Critical"})

FailRequested ==
    /\ "CVE_FAIL_ON_CRITICAL" \in DOMAIN env
    /\ EqualsTrueIgnoringCase(env["CVE_FAIL_ON_CRITICAL"])

\* C18: main of cve_report ends with the failing exit of critical findings
\* exactly when there is a Critical finding and CVE_FAIL_ON_CRITICAL is
\* "true" in any case; that exit comes after the report file is written; with
\* the variable unset or of another value the run ends normally.
C18_FailOnCriticalExit ==
    script = "cve" =>
        /\ main_pc = "exit_critical" =>
               /\ CriticalFindings > 0
               /\ FailRequested
               /\ report # "absent"
               /\ exit_status = "fail"
        /\ main_pc = "done" =>
               /\ ~(CriticalFindings > 0 /\ FailRequested)
               /\ exit_status = "ok"

\* C18 witness: a Critical finding and CVE_FAIL_ON_CRITICAL=TRUE end main with
\* the failing exit, the basic report being written
C18_Witness ==
    /\ script = "cve"
    /\ main_pc = "exit_critical"
    /\ env["CVE_FAIL_ON_CRITICAL"] = <<"T", "R", "U", "E">>
    /\ CriticalFindings > 0
    /\ report = "basic"

\* C18 witness of the normal end: a Critical finding with the variable unset
C18_WitnessNormal ==
    /\ script = "cve"
    /\ main_pc = "done"
    /\ "CVE_FAIL_ON_CRITICAL" \notin DOMAIN env
    /\ CriticalFindings > 0
    /\ exit_status = "ok"

\* main has passed its report stage
MainReported == main_pc \in {"reported", "done", "exit_critical"}

\* what holds of the report file once the report stage is passed
ReportStageOutcome ==
    MainReported =>
        /\ report # "absent"
        /\ "LLM_API_KEY" \notin DOMAIN env => basic_written /\ report = "basic"
        /\ agent = "raised" => basic_written /\ report = "basic"
        /\ agent = "returned" => (basic_written <=> report = "basic")

\* the test that follows the return of the agent: the basic report is
\* written when no file is at the report path, and a file that is there is
\* left as it is
VerifyStep ==
    main_pc = "verify" =>
        IF report = "absent"
        THEN report' = "basic" /\ basic_written'
        ELSE report' = report /\ ~basic_written'

\* C20: in each of the three mains, once the scan or summary stage has
\* succeeded the run ends with a report at the report path: the basic report
\* is written when LLM_API_KEY is unset, when the agent raises, and when the
\* agent returns and no file is at the report path; when the agent returns
\* and the file is there, the basic report is not written over it.
C20_RunEndsWithReport ==
    /\ []ReportStageOutcome
    /\ [][VerifyStep]_vars
    /\ \A sc \in Scripts :
           (script = sc /\ main_pc = "report")
               ~> (script = sc /\ main_pc \in {"done", "exit_critical"}
                   /\ report # "absent")

\* C20 witness: the agent of sbom_report returned with its report written,
\* and main ended without writing the basic report
C20_Witness ==
    /\ script = "sbom"
    /\ main_pc = "done"
    /\ agent = "returned"
    /\ report = "agent"
    /\ ~basic_written

\* C20 witnesses of the three cases in which the basic report is written
C20_WitnessFallbacks ==
    /\ main_pc = "done"
    /\ report = "basic"
    /\ basic_written
    /\ \/ script = "ai_readiness" /\ "LLM_API_KEY" \notin DOMAIN env
       \/ script = "cve" /\ agent = "raised"
       \/ script = "sbom" /\ agent = "returned"

\* C21: with LLM_API_KEY set, when the agent returns without having written
\* the report in this run, main writes the basic report, whatever the reports
\* directory held at the start, a report of the same date left by an earlier
\* run included.
C21_FallbackWhenAgentWroteNothing ==
    (MainReported /\ agent = "returned" /\ report # "agent") =>
        basic_written /\ report = "basic"

\* C21, the part that holds: the fallback is taken when nothing is at the
\* report path after the agent returned
C21_FallbackWhenNoFile ==
    [][(main_pc = "verify" /\ report = "absent") =>
           (basic_written' /\ report' = "basic")]_vars

\* a step of the CVE stage of sbom_report does not end the run
CveStageGoesOn ==
    (script = "sbom" /\ main_pc \in {"install_grype", "grype_scan"}) =>
        /\ main_pc' \in {"install_grype", "grype_scan", "summarize", "report"}
        /\ exit_status' = "running"

\* an exit of sbom_report for a tool failure has status 1, comes from the
\* syft stage and comes before any report is written
SyftFailureExits ==
    (script = "sbom" /\ main_pc = "exit_tool") =>
        /\ exit_status = "fail"
        /\ scan_data = "none"
        /\ agent = "not_run"
        /\ ~basic_written
        /\ report \in {"absent", "stale"}

\* C22: in main of sbom_report a failure of the CVE stage (grype not
\* installed, or no scan data) never ends the run: the report stage is
\* reached with cve_summary absent and the run ends normally with a report;
\* a failure to install syft or to generate the SBOM exits with status 1
\* before any report is written.
C22_CveStageFailureGoesOn ==
    /\ [][CveStageGoesOn]_vars
    /\ []SyftFailureExits
    /\ (script = "sbom" /\ main_pc = "report" /\ cve_summary = EmptyDict)
           ~> (/\ main_pc = "done"
               /\ exit_status = "ok"
               /\ report # "absent"
               /\ cve_summary = EmptyDict)

\* C22 witness: the scan of sbom_report returned no data, and main ended
\* normally with the basic report written without a CVE summary
C22_Witness ==
    /\ script = "sbom"
    /\ main_pc = "done"
    /\ scan_data = "none"
    /\ cve_summary = EmptyDict
    /\ report = "basic"
    /\ basic_written
    /\ exit_status = "ok"

\* C22 witness of the exit: syft failed, and main exited with status 1
C22_WitnessExit ==
    /\ script = "sbom"
    /\ main_pc = "exit_tool"
    /\ exit_status = "fail"
    /\ ~basic_written

\* C25: run_grype_scan and run_cve_scan return data only when the grype
\* process of the call wrote the output file: a call in which grype fails or
\* writes nothing returns None, whatever reports/ held before, and never the
\* content of a reports/cve-raw.json left by an earlier run.
C25_ScanDataFromThisRun ==
    scan_data # "none" => scan_data = "fresh"

\* C25, the part that holds: with no reports/cve-raw.json at the start of
\* the call, data is returned only when grype wrote the file
C25_NoLeftoverNoStaleData ==
    [][(main_pc = "grype_scan" /\ cve_raw = "absent") =>
           scan_data' \in {"none", "fresh"}]_vars

-----------------------------------------------------------------------------
(* Properties of scan_files on nested directories, checked under SpecScan *)

\* p lies below the directory d, at any depth
Below(p, d) == Len(p) > Len(d) /\ SubSeq(p, 1, Len(d)) = d

\* every regular file below .openhands/skills/ and .openhands/microagents/
\* is named repo.md, and .openhands/setup.sh is absent
OnlyRepoMd(snapshot) ==
    /\ \A f \in snapshot.files :
           (Below(f, <<".openhands", "skills">>)
              \/ Below(f, <<".openhands", "microagents">>))
           => f[Len(f)] = "repo.md"
    /\ <<".openhands", "setup.sh">> \notin snapshot.files

\* C23: a repository in which every regular file below .openhands/skills/
\* and .openhands/microagents/, at any depth, is named repo.md, and which has
\* no .openhands/setup.sh, never earns Agent Automation: the result of that
\* rule has exists = false.
C23_RepoMdOnlyNeverEarns ==
    (Len(results) >= AutomationRule /\ OnlyRepoMd(fs)) =>
        ~results[AutomationRule].info.exists

\* C23, the part that holds: when the two directories have no subdirectory,
\* such a repository does not earn the rule
C23_FlatRepoMdOnlyNeverEarns ==
    (/\ Len(results) >= AutomationRule
     /\ OnlyRepoMd(fs)
     /\ \A d \in fs.dirs : Len(d) <= 2) =>
        ~results[AutomationRule].info.exists

\* C24: a rule reported as existing with found_at a directory has a
\* file_count of at least 1.
C24_DirectoryCountPositive ==
    \A i \in DOMAIN results :
        (results[i].info.exists /\ resolve(results[i].info.found_at) \in fs.dirs) =>
            results[i].info.file_count >= 1

\* C24, the part that holds: the count is positive when the directory has a
\* regular file of its own that is not excluded
C24_CountPositiveWithOwnFile ==
    \A i \in DOMAIN results :
        LET info == results[i].info
        IN  (/\ info.exists
             /\ resolve(info.found_at) \in fs.dirs
             /\ \E f \in fs.files :
                    /\ Len(f) = Len(resolve(info.found_at)) + 1
                    /\ Below(f, resolve(info.found_at))
                    /\ f[Len(f)] \notin Range(ExcludedOf(RuleOf(i)))) =>
                info.file_count >= 1

====
